---- MODULE Spec2Model ----
(***************************************************************************)
(* Model of the metabridge HTTP gateway.  Three server implementations     *)
(* live in the repository:                                                 *)
(*   "bridge_v1"  src/unnamed/part_001 lines 1-100   (first variant)       *)
(*   "bridge_v2"  src/unnamed/part_001 lines 102-427 (guard, simulator)    *)
(*   "routes_ts"  src/server/routes.ts               (registerRoutes)      *)
(* One request at a time travels through cors -> guard -> route handler -> *)
(* (remote Graph API call) -> response.                                    *)
(*                                                                         *)
(* JavaScript values are tagged records [t, v].  A JSON number n is held   *)
(* as the integer n * Unit, so that amounts with sub-cent digits are       *)
(* exact.                                                                  *)
(***************************************************************************)
EXTENDS Integers, Sequences, FiniteSets, TLC

\* ------------------------------------------------------------------ bounds
HalfSteps == 5          \* a cent is divided in 2 * HalfSteps steps
MaxHalfCents == 3       \* small budgets range over -MaxHalfCents..MaxHalfCents half cents
MaxBatch == 2           \* longest proposals list
MaxRecords == 11        \* requests the dashboard completes in one session

\* --------------------------------------------------------------- constants
CentsPerEur == 100
HistoryKept == 9        \* prev.slice(0, 9)

Unit == CentsPerEur * 2 * HalfSteps

\* ------------------------------------------------------- JavaScript values
undefined == [t |-> "undefined", v |-> 0]
NaN == [t |-> "NaN", v |-> 0]
Num(m) == [t |-> "number", v |-> m]
N(k) == Num(k * Unit)
Str(s) == [t |-> "string", v |-> s]

typeof(x) == IF x.t = "NaN" THEN "number" ELSE x.t

Truthy(x) ==
    CASE x.t = "undefined" -> FALSE
      [] x.t = "NaN" -> FALSE
      [] x.t = "number" -> x.v # 0
      [] x.t = "string" -> x.v # ""
      [] OTHER -> TRUE

\* x === y
StrictEq(x, y) == x.t = y.t /\ x.v = y.v

Field(obj, name) == IF name \in DOMAIN obj THEN obj[name] ELSE undefined

\* Number(x) on the values the model draws
Number(x) ==
    CASE x.t = "number" -> x
      [] x.t = "string" /\ x.v = "" -> N(0)
      [] x.t = "string" /\ x.v = "1" -> N(1)
      [] OTHER -> NaN

\* rounding of a / b (b > 0) with halves away from zero
MathRoundAway(a, b) ==
    IF a >= 0 THEN (2 * a + b) \div (2 * b)
    ELSE 0 - ((2 * (0 - a) + b) \div (2 * b))

\* Math.round of the rational a / b (b > 0): floor(a / b + 1/2)
MathRound(a, b) == (2 * a + b) \div (2 * b)

toCentsFloor(eur) ==
    LET n == Number(eur)
    IN  IF n.t = "NaN" THEN undefined
        ELSE N((n.v * CentsPerEur) \div Unit)

toCents(eur) ==
    LET n == Number(eur)
    IN  IF n.t = "NaN" THEN undefined
        ELSE N(MathRound(n.v * CentsPerEur, Unit))

\* routes.ts and the first variant inline the conversion without the NaN test
inlineCents(eur) ==
    LET n == Number(eur)
    IN  IF n.t = "NaN" THEN NaN
        ELSE N(MathRound(n.v * CentsPerEur, Unit))

\* ----------------------------------------------------------- configuration
Unset == "<unset>"
Servers == {"bridge_v1", "bridge_v2", "routes_ts"}

\* servers that install the API key guard (part_001); registerRoutes in
\* routes.ts only adds route handlers to an app it is handed
GuardedServers == {"bridge_v1", "bridge_v2"}

DEFAULT_POLICY_Deleted ==
    [maxIncreasePct |-> 30,
     maxDecreasePct |-> 30,
     minDailyBudgetEur |-> 1,
     allowStatuses |-> {"PAUSED", "ACTIVE", "ARCHIVED", "DELETED"}]

DEFAULT_POLICY_Max50 ==
    [maxIncreasePct |-> 50,
     maxDecreasePct |-> 30,
     minDailyBudgetEur |-> 1,
     allowStatuses |-> {"PAUSED", "ACTIVE", "ARCHIVED"}]

DEFAULT_POLICY ==
    [maxIncreasePct |-> 30,
     maxDecreasePct |-> 30,
     minDailyBudgetEur |-> 1,
     allowStatuses |-> {"PAUSED", "ACTIVE", "ARCHIVED"}]

VARIABLES
    server,          \* which implementation is running
    BRIDGE_API_KEY,  \* process.env.BRIDGE_API_KEY, or Unset
    TOKEN,           \* access token, or Unset
    AD_ACCOUNT_ID,   \* ad account id, or Unset
    policy,          \* the DEFAULT_POLICY object
    req,             \* request being handled
    pc,              \* position of the request in the pipeline
    res,             \* response sent: [status, body]
    sent,            \* number of responses sent for req
    handlerRan,      \* a route handler was entered for req
    remoteLog,       \* requests sent to the Graph API for req, with their reply
    parked,          \* the other request in flight, suspended
    probe,           \* a completed request and its response, remembered
    requestHistory,  \* dashboard: useState<HistoryItem[]>
    selectedResponse,\* dashboard: useState<ApiResponse | null>
    now              \* dashboard: the clock read by new Date()

config == <<server, BRIDGE_API_KEY, TOKEN, AD_ACCOUNT_ID, policy>>
\* what belongs to the request being handled
inflight == <<req, pc, res, sent, handlerRan, remoteLog>>
\* the dashboard's state, in the browser
client == <<requestHistory, selectedResponse, now>>
\* what the handling of one request never touches
aside == <<parked, probe, requestHistory, selectedResponse, now>>
vars == <<server, BRIDGE_API_KEY, TOKEN, AD_ACCOUNT_ID, policy,
          req, pc, res, sent, handlerRan, remoteLog,
          parked, probe, requestHistory, selectedResponse, now>>

NoReq == [method |-> "", path |-> "", key |-> undefined, body |-> [none |-> undefined]]
NoRes == [status |-> 0, body |-> [kind |-> "none"]]

\* the context of a connection on which nothing is being handled
Idle == [req |-> NoReq, pc |-> "idle", res |-> NoRes, sent |-> 0,
         handlerRan |-> FALSE, remoteLog |-> <<>>]
NoProbe == [req |-> NoReq, remoteLog |-> <<>>, res |-> NoRes]
null == [data |-> "null", stamp |-> 0, isError |-> FALSE]

hasEssentialEnv == AD_ACCOUNT_ID # Unset /\ TOKEN # Unset

\* ---------------------------------------------------------------- simulator
\* Set.prototype.has on a set of strings
SetHas(set, x) == x.t = "string" /\ x.v \in set

\* the callback of proposals.map
outcomeOfNoMin(pol, p) ==
    LET outcome == [id |-> Field(p, "id"), type |-> Field(p, "type"),
                    approved |-> FALSE, reason |-> ""]
        delta_pct == Field(p, "delta_pct")
    IN  IF StrictEq(Field(p, "type"), Str("budget_change"))
        THEN IF typeof(delta_pct) = "number"
                  /\ (delta_pct.v > pol.maxIncreasePct * Unit
                      \/ delta_pct.v < (0 - pol.maxDecreasePct) * Unit)
             THEN [outcome EXCEPT !.reason = "delta_pct fuera de umbral (+30/-30)"]
             ELSE [outcome EXCEPT !.approved = TRUE, !.reason = "OK"]
        ELSE IF StrictEq(Field(p, "type"), Str("status_change"))
             THEN IF ~ SetHas(pol.allowStatuses, Field(p, "new_status"))
                  THEN [outcome EXCEPT !.reason = "Estado no permitido"]
                  ELSE [outcome EXCEPT !.approved = TRUE, !.reason = "OK"]
             ELSE [outcome EXCEPT !.reason = "Tipo no soportado"]

\* the status branch taken for every type that is not budget_change
outcomeOfElse(pol, p) ==
    LET outcome == [id |-> Field(p, "id"), type |-> Field(p, "type"),
                    approved |-> FALSE, reason |-> ""]
    IN  IF StrictEq(Field(p, "type"), Str("budget_change"))
        THEN outcomeOfNoMin(pol, p)
        ELSE IF ~ SetHas(pol.allowStatuses, Field(p, "new_status"))
             THEN [outcome EXCEPT !.reason = "Estado no permitido"]
             ELSE [outcome EXCEPT !.approved = TRUE, !.reason = "OK"]

\* a callback that tests delta_pct before the minimum budget
outcomeOfDeltaFirst(pol, p) ==
    LET outcome == [id |-> Field(p, "id"), type |-> Field(p, "type"),
                    approved |-> FALSE, reason |-> ""]
        delta_pct == Field(p, "delta_pct")
        new_daily_budget_eur == Field(p, "new_daily_budget_eur")
    IN  IF StrictEq(Field(p, "type"), Str("budget_change"))
        THEN IF typeof(delta_pct) = "number"
                  /\ (delta_pct.v > pol.maxIncreasePct * Unit
                      \/ delta_pct.v < (0 - pol.maxDecreasePct) * Unit)
             THEN [outcome EXCEPT !.reason = "delta_pct fuera de umbral (+30/-30)"]
             ELSE IF typeof(new_daily_budget_eur) = "number"
                       /\ new_daily_budget_eur.v < pol.minDailyBudgetEur * Unit
                  THEN [outcome EXCEPT !.reason = "Presupuesto < minimo (1 EUR)"]
                  ELSE [outcome EXCEPT !.approved = TRUE, !.reason = "OK"]
        ELSE outcomeOfElse(pol, p)

outcomeOf(pol, p) ==
    LET outcome == [id |-> Field(p, "id"), type |-> Field(p, "type"),
                    approved |-> FALSE, reason |-> ""]
        delta_pct == Field(p, "delta_pct")
        new_daily_budget_eur == Field(p, "new_daily_budget_eur")
    IN  IF StrictEq(Field(p, "type"), Str("budget_change"))
        THEN IF typeof(new_daily_budget_eur) = "number"
                  /\ new_daily_budget_eur.v < pol.minDailyBudgetEur * Unit
             THEN [outcome EXCEPT !.reason = "Presupuesto < minimo (1 EUR)"]
             ELSE IF typeof(delta_pct) = "number"
                       /\ (delta_pct.v > pol.maxIncreasePct * Unit
                           \/ delta_pct.v < (0 - pol.maxDecreasePct) * Unit)
                  THEN [outcome EXCEPT !.reason = "delta_pct fuera de umbral (+30/-30)"]
                  ELSE [outcome EXCEPT !.approved = TRUE, !.reason = "OK"]
        ELSE IF StrictEq(Field(p, "type"), Str("status_change"))
             THEN IF ~ SetHas(pol.allowStatuses, Field(p, "new_status"))
                  THEN [outcome EXCEPT !.reason = "Estado no permitido"]
                  ELSE [outcome EXCEPT !.approved = TRUE, !.reason = "OK"]
             ELSE [outcome EXCEPT !.reason = "Tipo no soportado"]

\* results = proposals.filter(approved-so-far).map(callback): stops at a rejection
mapProposalsUntilReject(pol, proposals) ==
    LET all == [i \in 1..Len(proposals) |-> outcomeOf(pol, proposals[i])]
        n == IF \E i \in 1..Len(proposals) : ~ all[i].approved
             THEN CHOOSE i \in 1..Len(proposals) :
                      /\ ~ all[i].approved
                      /\ \A j \in 1..(i - 1) : all[j].approved
             ELSE Len(proposals)
    IN  SubSeq(all, 1, n)

\* results = proposals.map(callback)
mapProposals(pol, proposals) ==
    [i \in 1..Len(proposals) |-> outcomeOf(pol, proposals[i])]

\* a decision that looks at payload.status whatever the action
actionOutcomeAnyAction(pol, action, payload) ==
    LET status == IF payload.t = "object" THEN Field(payload.v, "status")
                  ELSE undefined
    IN  [type |-> Str("status_change"), payload |-> payload,
         approved |-> SetHas(pol.allowStatuses, status),
         reason |-> IF SetHas(pol.allowStatuses, status)
                    THEN <<"Status change to ", status, " is allowed.">>
                    ELSE <<"Status ", status, " not allowed.">>]

\* the single decision of the action + payload mode
actionOutcome(pol, action, payload) ==
    LET status == IF payload.t = "object" THEN Field(payload.v, "status")
                  ELSE undefined
    IN  IF StrictEq(action, Str("ad_status"))
        THEN [type |-> Str("status_change"), payload |-> payload,
              approved |-> SetHas(pol.allowStatuses, status),
              reason |-> IF SetHas(pol.allowStatuses, status)
                         THEN <<"Status change to ", status, " is allowed.">>
                         ELSE <<"Status ", status, " not allowed.">>]
        ELSE [type |-> action, approved |-> FALSE,
              reason |-> <<"Accion no soportada">>]

\* Array.from(set): the elements of the set, each once
ArrayFrom(S) ==
    CHOOSE a \in [1..Cardinality(S) -> S] : \A x \in S : \E i \in DOMAIN a : a[i] = x

policySnapshot(pol) ==
    [maxIncreasePct |-> pol.maxIncreasePct,
     maxDecreasePct |-> pol.maxDecreasePct,
     minDailyBudgetEur |-> pol.minDailyBudgetEur,
     allowStatuses |-> ArrayFrom(pol.allowStatuses)]

\* a mode selection that is content with one of action and payload
simulateResponseEither(pol, body) ==
    LET context == IF Field(body, "context").t = "undefined"
                   THEN [t |-> "object", v |-> [none |-> undefined]]
                   ELSE Field(body, "context")
        proposals == Field(body, "proposals")
        action == Field(body, "action")
        payload == Field(body, "payload")
        ok(results) ==
            [status |-> 200,
             body |-> [kind |-> "simulation", mode |-> "simulation",
                       contextEcho |-> context,
                       policy |-> policySnapshot(pol),
                       results |-> results]]
    IN  IF proposals.t = "array"
        THEN ok(mapProposals(pol, proposals.v))
        ELSE IF Truthy(action) \/ Truthy(payload)
             THEN ok(<<actionOutcome(pol, action, payload)>>)
             ELSE [status |-> 400,
                   body |-> [kind |-> "error",
                             error |-> "Falta proposals[] o action+payload"]]

\* body of app.post("/api/simulate"): the response it sends
simulateResponse(pol, body) ==
    LET context == IF Field(body, "context").t = "undefined"
                   THEN [t |-> "object", v |-> [none |-> undefined]]
                   ELSE Field(body, "context")
        proposals == Field(body, "proposals")
        action == Field(body, "action")
        payload == Field(body, "payload")
        ok(results) ==
            [status |-> 200,
             body |-> [kind |-> "simulation", mode |-> "simulation",
                       contextEcho |-> context,
                       policy |-> policySnapshot(pol),
                       results |-> results]]
    IN  IF proposals.t = "array"
        THEN ok(mapProposals(pol, proposals.v))
        ELSE IF Truthy(action) /\ Truthy(payload)
             THEN ok(<<actionOutcome(pol, action, payload)>>)
             ELSE [status |-> 400,
                   body |-> [kind |-> "error",
                             error |-> "Falta proposals[] o action+payload"]]

\* ----------------------------------------------------------------- requests
Methods == {"GET", "POST", "OPTIONS"}
Keys == {undefined, Str(""), Str("k1"), Str("k2")}
EmptyBody == [none |-> undefined]

Amounts ==
    {undefined, Str(""), Str("1"), Str("abc")}
        \cup {Num(m) : m \in (0 - MaxHalfCents * HalfSteps)..(MaxHalfCents * HalfSteps)}
        \cup {N(1), N(12)}

MaybeStr(s) == {undefined, Str(s)}

InsightsBodies ==
    [since : MaybeStr("2024-01-01"), until : MaybeStr("2024-01-31"),
     level : MaybeStr("campaign"), time_increment : MaybeStr("7"),
     breakdowns : MaybeStr("age"), fields : MaybeStr("spend"),
     date_preset : MaybeStr("last_7d")]

BudgetBodies ==
    [adset_id : {undefined, Str(""), Str("as1")}, daily_budget_eur : Amounts]

StatusBodies ==
    [ad_id : MaybeStr("ad1"),
     status : {undefined, Str("ACTIVE"), Str("PAUSED"), Str("ARCHIVED"),
               Str("DELETED")}]

Arr(seq) == [t |-> "array", v |-> seq]
Obj(rec) == [t |-> "object", v |-> rec]

Companions ==
    {[id |-> Str("c1"), type |-> Str("budget_change"), delta_pct |-> N(10),
      new_daily_budget_eur |-> N(5), new_status |-> undefined],
     [id |-> Str("c2"), type |-> Str("status_change"), delta_pct |-> undefined,
      new_daily_budget_eur |-> undefined, new_status |-> Str("DELETED")],
     [id |-> Str("c3"), type |-> Str("budget_change"), delta_pct |-> N(40),
      new_daily_budget_eur |-> undefined, new_status |-> undefined]}

Payloads == {undefined, Str(""), Str("PAUSED"), Obj([status |-> Str("PAUSED")]),
             Obj([status |-> Str("DELETED")]), Obj(EmptyBody)}

ActionBodies ==
    [proposals : {undefined, Str("none")},
     action : {undefined, Str(""), Str("ad_status"), Str("adset_budget")},
     payload : Payloads,
     context : {undefined, Obj([campaign |-> Str("c")])}]

SmallSimBodies ==
    ActionBodies
        \cup [proposals : {Arr(<<>>)} \cup {Arr(<<c>>) : c \in Companions},
              action : {undefined, Str("ad_status")},
              payload : {undefined, Obj([status |-> Str("PAUSED")])},
              context : {undefined}]

Paths == {"/api/health", "/healthz", "/api/insights", "/api/adset_budget",
          "/api/ad_status", "/api/simulate", "/api/campaigns"}

BodiesOf(method, path) ==
    IF method # "POST" THEN {EmptyBody}
    ELSE CASE path = "/api/insights" -> InsightsBodies
           [] path = "/api/adset_budget" -> BudgetBodies
           [] path = "/api/ad_status" -> StatusBodies
           [] path = "/api/simulate" -> SmallSimBodies
           [] OTHER -> {EmptyBody}

GatewayRequests ==
    UNION {[method : {m}, path : {p}, key : Keys, body : BodiesOf(m, p)] :
              m \in Methods, p \in Paths}

\* ------------------------------------------------------------------ pipeline
Init ==
    /\ server \in Servers
    /\ BRIDGE_API_KEY \in (IF server \in GuardedServers THEN {Unset, "k1"}
                           ELSE {Unset})
    /\ TOKEN \in {Unset, "tok"}
    /\ AD_ACCOUNT_ID \in {Unset, "act_1"}
    /\ policy = DEFAULT_POLICY
    /\ req = NoReq
    /\ pc = "idle"
    /\ res = NoRes
    /\ sent = 0
    /\ handlerRan = FALSE
    /\ remoteLog = <<>>
    /\ parked = Idle
    /\ probe = NoProbe
    /\ requestHistory = <<>>
    /\ selectedResponse = null
    /\ now = 1

\* res.status(status).json(body): the response leaves, the request is over
Respond(status, body) ==
    /\ res' = [status |-> status, body |-> body]
    /\ sent' = sent + 1
    /\ pc' = "done"

ErrorBody(e) == [kind |-> "error", error |-> e]

\* a request arrives; routes.ts registers handlers only, part_001 puts
\* cors() and the guard in front of them
ReceiveFrom(Requests) ==
    /\ pc = "idle"
    /\ \E r \in Requests :
        /\ req' = r
        /\ pc' = IF server \in GuardedServers THEN "cors" ELSE "route"
    /\ res' = NoRes
    /\ sent' = 0
    /\ handlerRan' = FALSE
    /\ remoteLog' = <<>>
    /\ UNCHANGED <<aside, config>>

Receive == ReceiveFrom(GatewayRequests)

\* app.use(cors()): a preflight is answered 204 and goes no further
Cors ==
    /\ pc = "cors"
    /\ IF req.method = "OPTIONS"
       THEN Respond(204, [kind |-> "preflight"])
       ELSE pc' = "guard" /\ UNCHANGED <<res, sent>>
    /\ UNCHANGED <<aside, config, req, handlerRan, remoteLog>>

openPaths == {"/api/health"}
OPEN_PATHS_HealthzOnly == {"/healthz"}
OPEN_PATHS == {"/api/health", "/healthz"}

\* a guard that only looks for the presence of the header
guardPassesAnyKey(r) ==
    \/ r.path \in openPaths
    \/ BRIDGE_API_KEY = Unset
    \/ Truthy(r.key)

\* guard of the first variant: next() or 401
guardPassesV1(r) ==
    \/ r.path \in openPaths
    \/ BRIDGE_API_KEY = Unset
    \/ StrictEq(r.key, Str(BRIDGE_API_KEY))

\* a guard that asks for the key even when none is configured
guardPassesV2Strict(r) ==
    \/ r.path \in OPEN_PATHS
    \/ r.method = "OPTIONS"
    \/ (Truthy(r.key) /\ StrictEq(r.key, Str(BRIDGE_API_KEY)))

\* guard of the second variant: next() or 401
guardPassesV2(r) ==
    \/ r.path \in OPEN_PATHS
    \/ r.method = "OPTIONS"
    \/ BRIDGE_API_KEY = Unset
    \/ (Truthy(r.key) /\ StrictEq(r.key, Str(BRIDGE_API_KEY)))

guardPasses(r) ==
    IF server = "bridge_v1" THEN guardPassesV1(r) ELSE guardPassesV2(r)

\* a guard that remembers in a shared flag that a key was accepted: it lets
\* a request through while a request with the right key is in flight
GuardShared ==
    /\ pc = "guard"
    /\ IF guardPasses(req)
          \/ (parked.pc \in {"route", "remote"} /\ guardPasses(parked.req))
       THEN pc' = "route" /\ UNCHANGED <<res, sent>>
       ELSE Respond(401, ErrorBody("Unauthorized"))
    /\ UNCHANGED <<aside, config, req, handlerRan, remoteLog>>

Guard ==
    /\ pc = "guard"
    /\ IF guardPasses(req)
       THEN pc' = "route" /\ UNCHANGED <<res, sent>>
       ELSE Respond(401, ErrorBody("Unauthorized"))
    /\ UNCHANGED <<aside, config, req, handlerRan, remoteLog>>

\* ------------------------------------------------------------ route handlers
\* axios / fetch call to the Graph API; the handler awaits the reply
SendRemote(call) ==
    /\ remoteLog' = Append(remoteLog, [call |-> call, reply |-> "pending"])
    /\ pc' = "remote"
    /\ UNCHANGED <<res, sent>>

Default(x, d) == IF x.t = "undefined" THEN d ELSE x
OrElse(x, d) == IF Truthy(x) THEN x ELSE d

DefaultFields ==
    Str("date_start,ad_id,adset_id,campaign_id,spend,clicks,ctr,cpm,actions,action_values,roas")

\* JSON.stringify({ since, until })
TimeRange(since, until) == [t |-> "json", v |-> <<since, until>>]

AtRoute(method, path, servers) ==
    /\ pc = "route"
    /\ req.method = method
    /\ req.path = path
    /\ server \in servers

\* ensureEnv(res): the 500 it sends when it returns false
ensureEnvFails == ~ hasEssentialEnv
ensureEnvBody == ErrorBody("Missing required env vars")

Health ==
    /\ AtRoute("GET", "/api/health", Servers)
    /\ handlerRan' = TRUE
    /\ Respond(200, [kind |-> "health", ok |-> TRUE, version |-> "v23.0"])
    /\ UNCHANGED <<aside, config, req, remoteLog>>

Healthz ==
    /\ AtRoute("GET", "/healthz", {"bridge_v2"})
    /\ handlerRan' = TRUE
    /\ Respond(200, [kind |-> "text", text |-> "ok"])
    /\ UNCHANGED <<aside, config, req, remoteLog>>

\* a handler that goes on after ensureEnv has answered
InsightsGetNoReturn ==
    /\ AtRoute("GET", "/api/insights", {"bridge_v1", "bridge_v2"})
    /\ handlerRan' = TRUE
    /\ remoteLog' = Append(remoteLog,
                           [call |-> [verb |-> "GET", node |-> AD_ACCOUNT_ID,
                                      edge |-> "insights", token |-> TOKEN,
                                      params |-> [level |-> Str("campaign"),
                                                  date_preset |-> Str("last_7d"),
                                                  fields |-> Str("campaign_name,impressions,clicks,spend")]],
                            reply |-> "pending"])
    /\ pc' = "remote"
    /\ IF server = "bridge_v2" /\ ensureEnvFails
       THEN res' = [status |-> 500, body |-> ensureEnvBody] /\ sent' = sent + 1
       ELSE UNCHANGED <<res, sent>>
    /\ UNCHANGED <<aside, config, req>>

InsightsGet ==
    /\ AtRoute("GET", "/api/insights", {"bridge_v1", "bridge_v2"})
    /\ handlerRan' = TRUE
    /\ IF server = "bridge_v2" /\ ensureEnvFails
       THEN Respond(500, ensureEnvBody) /\ UNCHANGED remoteLog
       ELSE SendRemote([verb |-> "GET", node |-> AD_ACCOUNT_ID, edge |-> "insights",
                        token |-> TOKEN,
                        params |-> [level |-> Str("campaign"),
                                    date_preset |-> Str("last_7d"),
                                    fields |-> Str("campaign_name,impressions,clicks,spend")]])
    /\ UNCHANGED <<aside, config, req>>

insightsParams(body) ==
    LET since == Field(body, "since")
        until == Field(body, "until")
        date_preset == Field(body, "date_preset")
        base == [level |-> Default(Field(body, "level"), Str("ad")),
                 time_increment |-> Default(Field(body, "time_increment"), Str("1")),
                 fields |-> OrElse(Field(body, "fields"), DefaultFields),
                 breakdowns |-> IF Truthy(Field(body, "breakdowns"))
                                THEN Field(body, "breakdowns") ELSE undefined,
                 time_range |-> IF Truthy(since) /\ Truthy(until)
                                THEN TimeRange(since, until) ELSE undefined,
                 date_preset |-> undefined]
    IN  IF server = "bridge_v2" /\ ~ (Truthy(since) /\ Truthy(until))
           /\ Truthy(date_preset)
        THEN [base EXCEPT !.date_preset = date_preset]
        ELSE base

\* the validation routes.ts does before it builds the call; part_001 has none
sinceUntilRequired == server = "routes_ts"

insightsCall(body) ==
    [verb |-> "GET", node |-> AD_ACCOUNT_ID, edge |-> "insights",
     token |-> TOKEN, params |-> insightsParams(body)]

InsightsPost ==
    /\ AtRoute("POST", "/api/insights", Servers)
    /\ handlerRan' = TRUE
    /\ LET since == Field(req.body, "since")
           until == Field(req.body, "until")
       IN  CASE server = "bridge_v1" -> SendRemote(insightsCall(req.body))
             [] server = "bridge_v2" ->
                  IF ensureEnvFails
                  THEN Respond(500, ensureEnvBody) /\ UNCHANGED remoteLog
                  ELSE SendRemote(insightsCall(req.body))
             [] server = "routes_ts" ->
                  IF sinceUntilRequired /\ (~ Truthy(since) \/ ~ Truthy(until))
                  THEN Respond(400, ErrorBody("since and until dates are required"))
                       /\ UNCHANGED remoteLog
                  ELSE IF TOKEN = Unset
                  THEN Respond(500, ErrorBody("META_SYSTEM_USER_TOKEN not configured"))
                       /\ UNCHANGED remoteLog
                  ELSE IF AD_ACCOUNT_ID = Unset
                  THEN Respond(500, ErrorBody("META_AD_ACCOUNT_ID not configured"))
                       /\ UNCHANGED remoteLog
                  ELSE SendRemote(insightsCall(req.body))
    /\ UNCHANGED <<aside, config, req>>

budgetCall(adset_id, daily_budget) ==
    [verb |-> "POST", node |-> adset_id.v, edge |-> "", token |-> TOKEN,
     params |-> [daily_budget |-> daily_budget]]

AdsetBudget ==
    /\ AtRoute("POST", "/api/adset_budget", Servers)
    /\ handlerRan' = TRUE
    /\ LET adset_id == Field(req.body, "adset_id")
           daily_budget_eur == Field(req.body, "daily_budget_eur")
       IN  CASE server = "bridge_v1" ->
                  IF ~ Truthy(adset_id) \/ ~ Truthy(daily_budget_eur)
                  THEN Respond(400, ErrorBody("adset_id y daily_budget_eur son requeridos"))
                       /\ UNCHANGED remoteLog
                  ELSE SendRemote(budgetCall(adset_id, inlineCents(daily_budget_eur)))
             [] server = "bridge_v2" ->
                  IF ensureEnvFails
                  THEN Respond(500, ensureEnvBody) /\ UNCHANGED remoteLog
                  ELSE IF ~ Truthy(adset_id) \/ daily_budget_eur.t = "undefined"
                  THEN Respond(400, ErrorBody("adset_id y daily_budget_eur son requeridos"))
                       /\ UNCHANGED remoteLog
                  ELSE IF toCents(daily_budget_eur).t = "undefined"
                  THEN Respond(400, ErrorBody("daily_budget_eur invalido"))
                       /\ UNCHANGED remoteLog
                  ELSE SendRemote(budgetCall(adset_id, toCents(daily_budget_eur)))
             [] server = "routes_ts" ->
                  IF ~ Truthy(adset_id) \/ ~ Truthy(daily_budget_eur)
                  THEN Respond(400, ErrorBody("adset_id and daily_budget_eur are required"))
                       /\ UNCHANGED remoteLog
                  ELSE IF TOKEN = Unset
                  THEN Respond(500, ErrorBody("META_SYSTEM_USER_TOKEN not configured"))
                       /\ UNCHANGED remoteLog
                  ELSE SendRemote(budgetCall(adset_id, inlineCents(daily_budget_eur)))
    /\ UNCHANGED <<aside, config, req>>

statusCall(ad_id, status) ==
    [verb |-> "POST", node |-> ad_id.v, edge |-> "", token |-> TOKEN,
     params |-> [status |-> status]]

AdStatus ==
    /\ AtRoute("POST", "/api/ad_status", Servers)
    /\ handlerRan' = TRUE
    /\ LET ad_id == Field(req.body, "ad_id")
           status == Field(req.body, "status")
       IN  CASE server = "bridge_v1" ->
                  IF ~ Truthy(ad_id) \/ ~ Truthy(status)
                  THEN Respond(400, ErrorBody("ad_id y status son requeridos"))
                       /\ UNCHANGED remoteLog
                  ELSE SendRemote(statusCall(ad_id, status))
             [] server = "bridge_v2" ->
                  IF ensureEnvFails
                  THEN Respond(500, ensureEnvBody) /\ UNCHANGED remoteLog
                  ELSE IF ~ Truthy(ad_id) \/ ~ Truthy(status)
                  THEN Respond(400, ErrorBody("ad_id y status son requeridos"))
                       /\ UNCHANGED remoteLog
                  ELSE SendRemote(statusCall(ad_id, status))
             [] server = "routes_ts" ->
                  IF ~ Truthy(ad_id) \/ ~ Truthy(status)
                  THEN Respond(400, ErrorBody("ad_id and status are required"))
                       /\ UNCHANGED remoteLog
                  ELSE IF ~ SetHas({"ACTIVE", "PAUSED", "ARCHIVED"}, status)
                  THEN Respond(400, ErrorBody("status must be ACTIVE, PAUSED, or ARCHIVED"))
                       /\ UNCHANGED remoteLog
                  ELSE IF TOKEN = Unset
                  THEN Respond(500, ErrorBody("META_SYSTEM_USER_TOKEN not configured"))
                       /\ UNCHANGED remoteLog
                  ELSE SendRemote(statusCall(ad_id, status))
    /\ UNCHANGED <<aside, config, req>>

\* a simulator that uses up the increase allowance once it has approved
SimulateStateful ==
    /\ AtRoute("POST", "/api/simulate", {"bridge_v2"})
    /\ handlerRan' = TRUE
    /\ LET r == simulateResponse(policy, req.body)
       IN  /\ Respond(r.status, r.body)
           /\ policy' =
                 IF r.status = 200
                    /\ \E i \in 1..Len(r.body.results) : r.body.results[i].approved
                 THEN [policy EXCEPT !.maxIncreasePct = 0]
                 ELSE policy
    /\ UNCHANGED <<aside, server, BRIDGE_API_KEY, TOKEN, AD_ACCOUNT_ID, req, remoteLog>>

Simulate ==
    /\ AtRoute("POST", "/api/simulate", {"bridge_v2"})
    /\ handlerRan' = TRUE
    /\ LET r == simulateResponse(policy, req.body)
       IN  Respond(r.status, r.body)
    /\ UNCHANGED <<aside, config, req, remoteLog>>

\* (method, path) pairs each server registers a handler for
Routes(srv) ==
    {<<"GET", "/api/health">>, <<"POST", "/api/insights">>,
     <<"POST", "/api/adset_budget">>, <<"POST", "/api/ad_status">>}
        \cup (IF srv \in {"bridge_v1", "bridge_v2"}
              THEN {<<"GET", "/api/insights">>} ELSE {})
        \cup (IF srv = "bridge_v2"
              THEN {<<"GET", "/healthz">>, <<"POST", "/api/simulate">>} ELSE {})

\* no route matched: the 404 middleware of the second variant, otherwise
\* Express's own reply (an OPTIONS on a routed path lists the allowed methods)
NotFound ==
    /\ pc = "route"
    /\ <<req.method, req.path>> \notin Routes(server)
    /\ IF server = "bridge_v2"
       THEN Respond(404, ErrorBody("Not found"))
       ELSE IF req.method = "OPTIONS" /\ \E rt \in Routes(server) : rt[2] = req.path
       THEN Respond(200, [kind |-> "allow"])
       ELSE Respond(404, [kind |-> "express404"])
    /\ UNCHANGED <<aside, config, req, handlerRan, remoteLog>>

\* ------------------------------------------------------- the remote's reply
RemoteOutcomes == {"ok", "http_error", "network_error"}

\* e?.response?.data || e.message
relayedError(outcome) ==
    IF outcome = "http_error" THEN "remote_error_payload" ELSE "Network Error"

replyResponse(srv, r, call, outcome) ==
    CASE r.path = "/api/insights" /\ r.method = "GET" ->
           IF srv = "bridge_v1"
           THEN IF outcome = "network_error"
                THEN [status |-> 500, body |-> ErrorBody("No se pudieron obtener insights")]
                ELSE [status |-> 200,
                      body |-> [kind |-> "relay",
                                data |-> IF outcome = "ok" THEN "remote_data"
                                         ELSE "remote_error_payload"]]
           ELSE IF outcome = "ok"
                THEN [status |-> 200, body |-> [kind |-> "relay", data |-> "remote_data"]]
                ELSE [status |-> 500, body |-> ErrorBody("No se pudieron obtener insights")]
      [] r.path = "/api/insights" /\ r.method = "POST" ->
           IF outcome = "ok"
           THEN [status |-> 200, body |-> [kind |-> "relay", data |-> "remote_data"]]
           ELSE [status |-> 400, body |-> ErrorBody(relayedError(outcome))]
      [] r.path = "/api/adset_budget" ->
           IF outcome = "ok"
           THEN [status |-> 200,
                 body |-> [kind |-> "updated", updated |-> TRUE, meta |-> "remote_data",
                           converted_budget_cents |->
                               IF srv = "routes_ts" THEN call.params.daily_budget
                               ELSE undefined,
                           new_status |-> undefined]]
           ELSE [status |-> 400, body |-> ErrorBody(relayedError(outcome))]
      [] OTHER ->
           IF outcome = "ok"
           THEN [status |-> 200,
                 body |-> [kind |-> "updated", updated |-> TRUE, meta |-> "remote_data",
                           converted_budget_cents |-> undefined,
                           new_status |->
                               IF srv = "routes_ts" THEN call.params.status
                               ELSE undefined]]
           ELSE [status |-> 400, body |-> ErrorBody(relayedError(outcome))]

\* a handler whose catch block repeats the call once before giving up
RemoteReplyRetry ==
    /\ pc = "remote"
    /\ \E outcome \in RemoteOutcomes :
        LET last == remoteLog[Len(remoteLog)]
            r == replyResponse(server, req, last.call, outcome)
            logged == [remoteLog EXCEPT ![Len(remoteLog)].reply = outcome]
        IN  IF outcome # "ok" /\ Len(remoteLog) < 2
            THEN /\ remoteLog' = Append(logged, [call |-> last.call, reply |-> "pending"])
                 /\ UNCHANGED <<pc, res, sent>>
            ELSE /\ Respond(r.status, r.body)
                 /\ remoteLog' = logged
    /\ UNCHANGED <<aside, config, req, handlerRan>>

RemoteReply ==
    /\ pc = "remote"
    /\ \E outcome \in RemoteOutcomes :
        LET r == replyResponse(server, req, remoteLog[Len(remoteLog)].call, outcome)
        IN  /\ Respond(r.status, r.body)
            /\ remoteLog' = [remoteLog EXCEPT ![Len(remoteLog)].reply = outcome]
    /\ UNCHANGED <<aside, config, req, handlerRan>>

\* the response has been written; the server waits for the next request
Close ==
    /\ pc = "done"
    /\ pc' = "idle"
    /\ req' = NoReq
    /\ res' = NoRes
    /\ sent' = 0
    /\ handlerRan' = FALSE
    /\ remoteLog' = <<>>
    /\ UNCHANGED <<aside, config>>

Next ==
    \/ Receive
    \/ Cors
    \/ Guard
    \/ Health
    \/ Healthz
    \/ InsightsGet
    \/ InsightsPost
    \/ AdsetBudget
    \/ AdStatus
    \/ Simulate
    \/ NotFound
    \/ RemoteReply
    \/ Close

Spec == Init /\ [][Next]_vars

\* ------------------------------------------- the simulator on rich batches
ProposalSet ==
    [id : {Str("p1"), Str("p2")},
     type : {undefined, Str("budget_change"), Str("status_change"),
             Str("creative_swap")},
     delta_pct : {undefined, Str("40"), N(0 - 31), N(0 - 30), N(30), N(31), N(40)},
     new_daily_budget_eur : {undefined, Str("0"), Num(Unit - 1), N(1)},
     new_status : {undefined, Str("ACTIVE"), Str("PAUSED"), Str("ARCHIVED"),
                   Str("DELETED")}]

SeqsUpTo(S, n) == UNION {[1..k -> S] : k \in 0..n}

\* lists of at most MaxBatch proposals: companions, one of them possibly
\* replaced by any proposal of ProposalSet
Batches ==
    SeqsUpTo(Companions, MaxBatch)
        \cup UNION {{[b EXCEPT ![i] = p] : i \in 1..Len(b), p \in ProposalSet} :
                       b \in SeqsUpTo(Companions, MaxBatch)}

SimRequests ==
    [method : {"POST"}, path : {"/api/simulate"}, key : {undefined},
     body : [proposals : {Arr(b) : b \in Batches},
             action : {undefined, Str("ad_status")},
             payload : {undefined},
             context : {undefined}]
            \cup ActionBodies]

SimInit ==
    /\ server = "bridge_v2"
    /\ BRIDGE_API_KEY = Unset
    /\ TOKEN \in {Unset, "tok"}
    /\ AD_ACCOUNT_ID = "act_1"
    /\ policy = DEFAULT_POLICY
    /\ req = NoReq
    /\ pc = "idle"
    /\ res = NoRes
    /\ sent = 0
    /\ handlerRan = FALSE
    /\ remoteLog = <<>>
    /\ parked = Idle
    /\ probe = NoProbe
    /\ requestHistory = <<>>
    /\ selectedResponse = null
    /\ now = 1

SimReceive == ReceiveFrom(SimRequests)

SimNext ==
    \/ SimReceive
    \/ Cors
    \/ Guard
    \/ Simulate
    \/ Close

SimSpec == SimInit /\ [][SimNext]_vars

\* =================================================================== claims
\* the request was a proposals list and the simulator has answered it
SimAnswered ==
    /\ pc = "done"
    /\ handlerRan
    /\ req.method = "POST"
    /\ req.path = "/api/simulate"
    /\ Field(req.body, "proposals").t = "array"

Proposals == Field(req.body, "proposals").v

IsType(p, name) == StrictEq(p.type, Str(name))

\* the claim's two rejection conditions, with the claim's own numbers
BelowMinimum(p) ==
    p.new_daily_budget_eur.t = "number" /\ p.new_daily_budget_eur.v < 1 * Unit

DeltaOutside(p) ==
    p.delta_pct.t = "number"
        /\ (p.delta_pct.v < (0 - 30) * Unit \/ p.delta_pct.v > 30 * Unit)

\* C1: a budget_change proposal of a proposals list is rejected when its
\* new_daily_budget_eur is below 1, rejected when its delta_pct is outside
\* [-30, 30], and approved otherwise; -30, 30 and a budget of exactly 1 are
\* approved.
C1_BudgetChangeRule ==
    SimAnswered =>
        /\ res.status = 200
        /\ Len(res.body.results) = Len(Proposals)
        /\ \A i \in 1..Len(Proposals) :
              IsType(Proposals[i], "budget_change") =>
                  /\ BelowMinimum(Proposals[i]) => ~ res.body.results[i].approved
                  /\ DeltaOutside(Proposals[i]) => ~ res.body.results[i].approved
                  /\ (~ BelowMinimum(Proposals[i]) /\ ~ DeltaOutside(Proposals[i]))
                        => res.body.results[i].approved
                  /\ (Proposals[i].delta_pct \in {N(0 - 30), N(30)}
                        /\ Proposals[i].new_daily_budget_eur = N(1))
                        => res.body.results[i].approved

C1_Witness ==
    /\ SimAnswered
    /\ Len(Proposals) = 2
    /\ \E i, j \in 1..2 :
          /\ IsType(Proposals[i], "budget_change")
          /\ Proposals[i].delta_pct = N(0 - 30)
          /\ Proposals[i].new_daily_budget_eur = N(1)
          /\ res.body.results[i].approved
          /\ IsType(Proposals[j], "budget_change")
          /\ Proposals[j].delta_pct = N(40)
          /\ ~ res.body.results[j].approved

\* C2: a status_change proposal of a proposals list is approved if and only
\* if its new_status is ACTIVE, PAUSED or ARCHIVED; DELETED and a missing
\* new_status are rejected whatever the other fields.
C2_StatusChangeRule ==
    SimAnswered =>
        /\ res.status = 200
        /\ Len(res.body.results) = Len(Proposals)
        /\ \A i \in 1..Len(Proposals) :
              IsType(Proposals[i], "status_change") =>
                  /\ res.body.results[i].approved
                        <=> \E st \in {"ACTIVE", "PAUSED", "ARCHIVED"} :
                               StrictEq(Proposals[i].new_status, Str(st))
                  /\ (Proposals[i].new_status.t = "undefined"
                        \/ StrictEq(Proposals[i].new_status, Str("DELETED")))
                        => ~ res.body.results[i].approved

C2_Witness ==
    /\ SimAnswered
    /\ \E i \in 1..Len(Proposals) :
          /\ IsType(Proposals[i], "status_change")
          /\ StrictEq(Proposals[i].new_status, Str("DELETED"))
          /\ Proposals[i].delta_pct = N(30)
          /\ Proposals[i].new_daily_budget_eur = N(1)
          /\ ~ res.body.results[i].approved

\* C3: a budget_change proposal with delta_pct = 40 is rejected at every
\* position of every batch, whatever its id and its new_daily_budget_eur.
C3_Delta40Rejected ==
    SimAnswered =>
        /\ res.status = 200
        /\ Len(res.body.results) = Len(Proposals)
        /\ \A i \in 1..Len(Proposals) :
              (IsType(Proposals[i], "budget_change") /\ Proposals[i].delta_pct = N(40))
                  => ~ res.body.results[i].approved

C3_Witness ==
    /\ SimAnswered
    /\ Len(Proposals) = 2
    /\ IsType(Proposals[2], "budget_change")
    /\ Proposals[2].delta_pct = N(40)
    /\ Proposals[2].new_daily_budget_eur = N(1)
    /\ res.body.results[1].approved
    /\ ~ res.body.results[2].approved

UnknownType(p) == ~ IsType(p, "budget_change") /\ ~ IsType(p, "status_change")

\* C4 as stated: a proposal of unknown or missing type is rejected with the
\* reason "unsupported type".
C4_Original ==
    SimAnswered =>
        \A i \in 1..Len(Proposals) :
            UnknownType(Proposals[i]) =>
                /\ ~ res.body.results[i].approved
                /\ res.body.results[i].reason = "unsupported type"

\* C4 amended: a proposal of unknown or missing type is never approved; it is
\* rejected with the reason "Tipo no soportado".
C4_UnknownTypeRejected ==
    SimAnswered =>
        /\ res.status = 200
        /\ Len(res.body.results) = Len(Proposals)
        /\ \A i \in 1..Len(Proposals) :
              UnknownType(Proposals[i]) =>
                  /\ ~ res.body.results[i].approved
                  /\ res.body.results[i].reason = "Tipo no soportado"

C4_Witness ==
    /\ SimAnswered
    /\ \E i \in 1..Len(Proposals) :
          /\ Proposals[i].type.t = "undefined"
          /\ StrictEq(Proposals[i].new_status, Str("ACTIVE"))
          /\ ~ res.body.results[i].approved
    /\ \E i \in 1..Len(Proposals) : res.body.results[i].approved

\* the decision the simulator returns for p submitted as the only proposal
AloneDecision(p) ==
    simulateResponse(policy,
        [proposals |-> Arr(<<p>>), action |-> undefined, payload |-> undefined,
         context |-> undefined]).body.results[1]

\* C5: the results list has the length and order of the proposals list,
\* result i carries the id and type of proposal i, and its decision is the
\* one proposal i gets when submitted alone.
C5_Independent ==
    SimAnswered =>
        /\ res.status = 200
        /\ Len(res.body.results) = Len(Proposals)
        /\ \A i \in 1..Len(Proposals) :
              /\ res.body.results[i].id = Proposals[i].id
              /\ res.body.results[i].type = Proposals[i].type
              /\ res.body.results[i].approved = AloneDecision(Proposals[i]).approved
              /\ res.body.results[i].reason = AloneDecision(Proposals[i]).reason

C5_Witness ==
    /\ SimAnswered
    /\ Len(Proposals) = 2
    /\ Proposals[1].id # Proposals[2].id
    /\ Proposals[1].type # Proposals[2].type
    /\ ~ res.body.results[1].approved
    /\ res.body.results[2].approved

\* ------------------------------------------------------------------ gateway
HealthGet == req.method = "GET" /\ req.path = "/api/health"

\* C6: a GET to the health path passes the guard and is answered with
\* ok = true, never with 401, whatever BRIDGE_API_KEY and the X-API-Key
\* header are (the /healthz alias of the second variant is never refused
\* either).
C6_HealthOpen ==
    /\ HealthGet =>
          /\ res.status # 401
          /\ pc = "done" =>
                /\ res.status = 200
                /\ res.body.kind = "health"
                /\ res.body.ok = TRUE
                /\ handlerRan
    /\ (server = "bridge_v2" /\ req.method = "GET" /\ req.path = "/healthz") =>
          /\ res.status # 401
          /\ pc = "done" => res.status = 200

C6_Witness ==
    /\ HealthGet
    /\ server \in GuardedServers
    /\ BRIDGE_API_KEY = "k1"
    /\ req.key = Str("k2")
    /\ pc = "done"
    /\ res.status = 200
    /\ res.body.ok = TRUE

\* the paths each guard leaves open
HealthPaths == IF server = "bridge_v1" THEN {"/api/health"}
               ELSE {"/api/health", "/healthz"}

\* a secret is configured and the request to a non-health path does not carry it
KeyRefused ==
    /\ BRIDGE_API_KEY # Unset
    /\ req # NoReq
    /\ req.path \notin HealthPaths
    /\ ~ StrictEq(req.key, Str(BRIDGE_API_KEY))

\* C7 as stated: with a secret configured, every request to a non-health
\* path without the right X-API-Key is answered 401, no handler runs and
\* nothing is sent to the remote API.
C7_Original ==
    KeyRefused =>
        /\ ~ handlerRan
        /\ remoteLog = <<>>
        /\ pc = "done" => res.status = 401

\* C7 amended: the same for every request that is not an OPTIONS preflight;
\* an OPTIONS request is let through without the key (answered 204), and
\* also for it no handler runs and nothing is sent to the remote API.
C7_KeyChecked ==
    KeyRefused =>
        /\ ~ handlerRan
        /\ remoteLog = <<>>
        /\ pc \notin {"route", "remote"}
        /\ pc = "done" =>
              res.status = IF req.method = "OPTIONS" THEN 204 ELSE 401

C7_Witness ==
    /\ KeyRefused
    /\ req.method = "POST"
    /\ req.path = "/api/adset_budget"
    /\ req.key = Str("k2")
    /\ StrictEq(Field(req.body, "adset_id"), Str("as1"))
    /\ Field(req.body, "daily_budget_eur") = N(12)
    /\ pc = "done"
    /\ res.status = 401

InsightsPosted ==
    /\ req.method = "POST"
    /\ req.path = "/api/insights"
    /\ handlerRan

DatesMissing ==
    \/ Field(req.body, "since").t = "undefined"
    \/ Field(req.body, "until").t = "undefined"

\* C8: a POST /api/insights in which since or until is missing is answered
\* 400 whatever its other fields, and nothing is sent to the remote API.
C8_MissingDates400 ==
    (InsightsPosted /\ DatesMissing) =>
        /\ remoteLog = <<>>
        /\ pc = "done" => res.status = 400

\* what routes.ts does on the same requests
C8_RoutesTs ==
    (server = "routes_ts" /\ InsightsPosted /\ DatesMissing) =>
        /\ remoteLog = <<>>
        /\ pc = "done" => res.status = 400

BudgetSent ==
    /\ req.method = "POST"
    /\ req.path = "/api/adset_budget"
    /\ Len(remoteLog) >= 1

Eur == Field(req.body, "daily_budget_eur")
SentBudget == remoteLog[1].call.params.daily_budget

\* c is x * 100 rounded to the nearest integer, a half rounded up, for the
\* amount x of v steps
IsRounded(c, v) ==
    /\ 2 * (c * Unit - v * CentsPerEur) <= Unit
    /\ 2 * (v * CentsPerEur - c * Unit) < Unit

\* C9: for every non-negative euro amount x, toCents(x) is round(x * 100),
\* and that is the daily_budget POST /api/adset_budget sends to the remote
\* API.
C9_BudgetConversion ==
    (BudgetSent /\ Eur.t = "number" /\ Eur.v >= 0) =>
        /\ Len(remoteLog) = 1
        /\ SentBudget.t = "number"
        /\ \E c \in 0..(MaxHalfCents + 12 * CentsPerEur) :
              /\ SentBudget.v = c * Unit
              /\ IsRounded(c, Eur.v)
              /\ toCents(Eur) = N(c)

C9_Witness ==
    /\ BudgetSent
    /\ server = "bridge_v2"
    /\ Eur = Num(3 * HalfSteps)
    /\ SentBudget = N(2)
    /\ pc = "done"
    /\ res.status = 200

\* the amount is exactly halfway between two whole numbers of cents
Halfway(v) == v % (2 * HalfSteps) = HalfSteps

\* C10 as stated: a halfway amount, positive or negative, converts to the
\* integer farther from zero.
C10_Original ==
    (BudgetSent /\ Eur.t = "number" /\ Halfway(Eur.v)) =>
        /\ SentBudget.t = "number"
        /\ \E c \in (0 - MaxHalfCents)..MaxHalfCents :
              /\ SentBudget.v = c * Unit
              /\ c * 2 * HalfSteps
                    = IF Eur.v > 0 THEN Eur.v + HalfSteps ELSE Eur.v - HalfSteps

\* C10 amended: a halfway amount converts to the greater of the two
\* integers: the one farther from zero when it is positive, the one nearer
\* zero when it is negative.
C10_HalfUp ==
    (BudgetSent /\ Eur.t = "number" /\ Halfway(Eur.v)) =>
        /\ SentBudget.t = "number"
        /\ \E c \in (0 - MaxHalfCents)..MaxHalfCents :
              /\ SentBudget.v = c * Unit
              /\ c * 2 * HalfSteps = Eur.v + HalfSteps

C10_Witness ==
    /\ BudgetSent
    /\ Eur = Num(0 - HalfSteps)
    /\ SentBudget = N(0)

\* ------------------------------------------------------------ error handling
Missing(name) == Field(req.body, name).t = "undefined"

BudgetPosted ==
    /\ req.method = "POST"
    /\ req.path = "/api/adset_budget"
    /\ handlerRan

StatusPosted ==
    /\ req.method = "POST"
    /\ req.path = "/api/ad_status"
    /\ handlerRan

RequiredFieldMissing ==
    \/ BudgetPosted /\ (Missing("adset_id") \/ Missing("daily_budget_eur"))
    \/ StatusPosted /\ (Missing("ad_id") \/ Missing("status"))

\* C11: a POST /api/adset_budget without adset_id or daily_budget_eur, and a
\* POST /api/ad_status without ad_id or status, is answered 400 with an error
\* message whatever the credential configuration, and nothing is sent to the
\* remote API.
C11_MissingFields400 ==
    RequiredFieldMissing =>
        /\ remoteLog = <<>>
        /\ pc = "done" => (res.status = 400 /\ res.body.kind = "error")

\* the same requests on a server whose environment check, if it has one, passes
C11_EnvChecked ==
    (RequiredFieldMissing /\ (server = "bridge_v2" => hasEssentialEnv)) =>
        /\ remoteLog = <<>>
        /\ pc = "done" => (res.status = 400 /\ res.body.kind = "error")

\* the request carries every field its endpoint requires, with a valid value
FieldsValid ==
    CASE req.path = "/api/insights" /\ req.method = "GET" -> TRUE
      [] req.path = "/api/insights" /\ req.method = "POST" ->
           Truthy(Field(req.body, "since")) /\ Truthy(Field(req.body, "until"))
      [] req.path = "/api/adset_budget" /\ req.method = "POST" ->
           /\ Truthy(Field(req.body, "adset_id"))
           /\ Field(req.body, "daily_budget_eur").t = "number"
           /\ Field(req.body, "daily_budget_eur").v > 0
      [] req.path = "/api/ad_status" /\ req.method = "POST" ->
           /\ Truthy(Field(req.body, "ad_id"))
           /\ \E st \in {"ACTIVE", "PAUSED", "ARCHIVED"} :
                 StrictEq(Field(req.body, "status"), Str(st))
      [] OTHER -> FALSE

CredentialsMissing == TOKEN = Unset \/ AD_ACCOUNT_ID = Unset

\* C12: on every forwarding endpoint, a request that passes field validation
\* while the access token or the ad account id is not configured is answered
\* 500 and nothing is sent to the remote API.
C12_MissingConfig500 ==
    (handlerRan /\ FieldsValid /\ CredentialsMissing) =>
        /\ remoteLog = <<>>
        /\ pc = "done" => res.status = 500

\* what the second variant (ensureEnv) does on the same requests
C12_BridgeV2 ==
    (server = "bridge_v2" /\ handlerRan /\ FieldsValid /\ CredentialsMissing) =>
        /\ remoteLog = <<>>
        /\ pc = "done" => res.status = 500

\* the remote call of the request has failed and the response is out
RemoteFailed ==
    /\ pc = "done"
    /\ Len(remoteLog) >= 1
    /\ remoteLog[Len(remoteLog)].reply \in {"http_error", "network_error"}

\* C13: whenever the call to the remote API fails, the caller receives 400
\* whose error field is the remote error payload, or the failure message
\* when the remote sent no body; a remote failure is never reported as
\* success.
C13_RemoteFailure400 ==
    RemoteFailed =>
        /\ res.status = 400
        /\ res.body.kind = "error"
        /\ res.body.error =
              IF remoteLog[Len(remoteLog)].reply = "http_error"
              THEN "remote_error_payload" ELSE "Network Error"

\* the same on the POST endpoints only
C13_PostEndpoints ==
    (RemoteFailed /\ req.method = "POST") =>
        /\ res.status = 400
        /\ res.body.kind = "error"
        /\ res.body.error =
              IF remoteLog[Len(remoteLog)].reply = "http_error"
              THEN "remote_error_payload" ELSE "Network Error"

\* C14: nothing is retried: a request causes at most one request to the
\* remote API, and once the remote has replied the handler answers without
\* sending anything more.
C14_NoRetry ==
    [][/\ Len(remoteLog') <= 1
       /\ pc = "remote" =>
             /\ Len(remoteLog') = Len(remoteLog)
             /\ pc' = "done"
             /\ sent' = sent + 1]_vars

C14_Witness ==
    /\ RemoteFailed
    /\ Len(remoteLog) = 1
    /\ remoteLog[1].reply = "network_error"
    /\ res.status = 400
    /\ sent = 1

\* ------------------------------------------------------------- side effects
StaticPolicy ==
    [maxIncreasePct |-> 30, maxDecreasePct |-> 30, minDailyBudgetEur |-> 1,
     allowStatuses |-> {"PAUSED", "ACTIVE", "ARCHIVED"}]

SimulatePosted ==
    /\ req.method = "POST"
    /\ req.path = "/api/simulate"
    /\ handlerRan

\* C15: handling POST /api/simulate sends nothing to the remote API and
\* leaves the static policy as it is, whatever the input and the outcome; the
\* policy in the response is that static policy.
C15_NoSideEffects ==
    /\ policy = StaticPolicy
    /\ SimulatePosted =>
          /\ remoteLog = <<>>
          /\ pc = "done"
          /\ res.status \in {200, 400}
          /\ res.status = 200 =>
                /\ res.body.policy.maxIncreasePct = 30
                /\ res.body.policy.maxDecreasePct = 30
                /\ res.body.policy.minDailyBudgetEur = 1
                /\ Len(res.body.policy.allowStatuses) = 3
                /\ {res.body.policy.allowStatuses[i] : i \in 1..3}
                      = {"PAUSED", "ACTIVE", "ARCHIVED"}

C15_Witness ==
    /\ SimAnswered
    /\ Len(Proposals) = 2
    /\ res.body.results[1].approved
    /\ res.body.results[2].approved
    /\ res.body.policy.maxIncreasePct = 30
    /\ policy = StaticPolicy

\* ------------------------------------------------ two requests in flight
\* Node runs one handler at a time and moves to another request when the
\* running one awaits or returns; Switch suspends the request being handled
\* and resumes the other one.
Current ==
    [req |-> req, pc |-> pc, res |-> res, sent |-> sent,
     handlerRan |-> handlerRan, remoteLog |-> remoteLog]

Switch ==
    /\ parked # Current
    /\ parked' = Current
    /\ req' = parked.req
    /\ pc' = parked.pc
    /\ res' = parked.res
    /\ sent' = parked.sent
    /\ handlerRan' = parked.handlerRan
    /\ remoteLog' = parked.remoteLog
    /\ UNCHANGED <<config, probe, client>>

\* the first answered request that is picked is remembered with its response
Remember ==
    /\ pc = "done"
    /\ probe = NoProbe
    /\ probe' = [req |-> req, remoteLog |-> remoteLog, res |-> res]
    /\ UNCHANGED <<config, inflight, parked, client>>

Good == Str("k1")
Bad == Str("k2")

ConcRequests ==
    {[method |-> "GET", path |-> "/api/health", key |-> undefined, body |-> EmptyBody],
     [method |-> "GET", path |-> "/api/insights", key |-> Good, body |-> EmptyBody],
     [method |-> "POST", path |-> "/api/insights", key |-> Good,
      body |-> [since |-> Str("2024-01-01"), until |-> Str("2024-01-31")]],
     [method |-> "POST", path |-> "/api/adset_budget", key |-> Good,
      body |-> [adset_id |-> Str("as1"), daily_budget_eur |-> N(12)]],
     [method |-> "POST", path |-> "/api/adset_budget", key |-> Bad,
      body |-> [adset_id |-> Str("as1"), daily_budget_eur |-> N(12)]],
     [method |-> "POST", path |-> "/api/ad_status", key |-> Good,
      body |-> [ad_id |-> Str("ad1"), status |-> Str("PAUSED")]],
     [method |-> "POST", path |-> "/api/simulate", key |-> Good,
      body |-> [proposals |-> Arr(<<CHOOSE c \in Companions : c.id = Str("c1")>>)]]}

ConcInit ==
    /\ server \in Servers
    /\ BRIDGE_API_KEY = (IF server \in GuardedServers THEN "k1" ELSE Unset)
    /\ TOKEN = "tok"
    /\ AD_ACCOUNT_ID \in {Unset, "act_1"}
    /\ policy = DEFAULT_POLICY
    /\ req = NoReq
    /\ pc = "idle"
    /\ res = NoRes
    /\ sent = 0
    /\ handlerRan = FALSE
    /\ remoteLog = <<>>
    /\ parked = Idle
    /\ probe = NoProbe
    /\ requestHistory = <<>>
    /\ selectedResponse = null
    /\ now = 1

ConcReceive == ReceiveFrom(ConcRequests)

ConcNext ==
    \/ ConcReceive
    \/ Cors
    \/ Guard
    \/ Health
    \/ InsightsGet
    \/ InsightsPost
    \/ AdsetBudget
    \/ AdStatus
    \/ Simulate
    \/ NotFound
    \/ RemoteReply
    \/ Close
    \/ Switch
    \/ Remember

ConcSpec == ConcInit /\ [][ConcNext]_vars

Replies(log) == [i \in 1..Len(log) |-> log[i].reply]

\* the request just answered is the remembered one, with the same replies of
\* the remote to its own call
SameAsProbe ==
    /\ pc = "done"
    /\ probe # NoProbe
    /\ probe.req = req
    /\ Replies(probe.remoteLog) = Replies(remoteLog)

\* C16: under any interleaving of two requests in flight and any succession
\* of requests, the response to a request depends only on the request, the
\* static configuration and the remote's reply to its own call, and no step
\* writes the configuration shared between requests.
C16_Stateless ==
    /\ [](SameAsProbe => (res = probe.res /\ remoteLog = probe.remoteLog))
    /\ [][config' = config]_vars

C16_Witness ==
    /\ SameAsProbe
    /\ req.key = Bad
    /\ res.status = 401
    /\ parked.pc = "remote"
    /\ parked.req.path = "/api/adset_budget"
    /\ parked.req.key = Good

\* ----------------------------------------------------------- the dashboard
\* the completed mutations the model draws: a success and a failure
Completions ==
    {[endpoint |-> "/insights", isError |-> FALSE],
     [endpoint |-> "/adset_budget", isError |-> TRUE]}

\* responseData: the parsed body of a success, the Error of a failure
responseData(c) == IF c.isError THEN "Error" ELSE "json"

historyItem(c, t) ==
    [timestamp |-> t, endpoint |-> c.endpoint, method |-> "POST",
     response |-> responseData(c), isError |-> c.isError]

\* data is the very object the history item holds as response; stamp, the
\* instant of the recording, stands for that object's identity
apiResponse(c, t) ==
    [data |-> responseData(c), stamp |-> t, isError |-> c.isError]

Min(a, b) == IF a < b THEN a ELSE b

\* prev.slice(0, n)
Slice(prev, n) == SubSeq(prev, 1, Min(Len(prev), n))

\* a history that keeps one item too many: prev.slice(0, 10)
pushHistoryOffByOne(item, prev) == <<item>> \o Slice(prev, HistoryKept + 1)

\* [historyItem, ...prev.slice(0, 9)]
pushHistory(item, prev) == <<item>> \o Slice(prev, HistoryKept)

gateway == <<config, inflight, parked, probe>>

\* the part after the await: both setters run in one turn of the event loop
handleApiResponse ==
    /\ now <= MaxRecords
    /\ \E c \in Completions :
        /\ selectedResponse' = apiResponse(c, now)
        /\ requestHistory' = pushHistory(historyItem(c, now), requestHistory)
    /\ now' = now + 1
    /\ UNCHANGED gateway

clearResponse ==
    /\ selectedResponse' = null
    /\ UNCHANGED <<gateway, requestHistory, now>>

clearHistory ==
    /\ requestHistory' = <<>>
    /\ UNCHANGED <<gateway, selectedResponse, now>>

\* onClick of a history item
selectHistoryItem ==
    /\ \E i \in 1..Len(requestHistory) :
        selectedResponse' =
            [data |-> requestHistory[i].response,
             stamp |-> requestHistory[i].timestamp,
             isError |-> requestHistory[i].isError]
    /\ UNCHANGED <<gateway, requestHistory, now>>

DashInit ==
    /\ server = "routes_ts"
    /\ BRIDGE_API_KEY = Unset
    /\ TOKEN = "tok"
    /\ AD_ACCOUNT_ID = "act_1"
    /\ policy = DEFAULT_POLICY
    /\ req = NoReq
    /\ pc = "idle"
    /\ res = NoRes
    /\ sent = 0
    /\ handlerRan = FALSE
    /\ remoteLog = <<>>
    /\ parked = Idle
    /\ probe = NoProbe
    /\ requestHistory = <<>>
    /\ selectedResponse = null
    /\ now = 1

DashNext ==
    \/ handleApiResponse
    \/ clearResponse
    \/ clearHistory
    \/ selectHistoryItem

DashSpec == DashInit /\ [][DashNext]_vars

NewestFirst ==
    \A i, j \in 1..Len(requestHistory) :
        i < j => requestHistory[i].timestamp > requestHistory[j].timestamp

Shown(item) ==
    [data |-> item.response, stamp |-> item.timestamp, isError |-> item.isError]

\* a request was recorded: one item more at the front, the oldest dropped
\* when ten were held, and its response is the one displayed
RecordedStep ==
    /\ Len(requestHistory') = IF Len(requestHistory) < 10
                              THEN Len(requestHistory) + 1 ELSE 10
    /\ requestHistory'[1].timestamp = now
    /\ \A i \in 2..Len(requestHistory') : requestHistory'[i] = requestHistory[i - 1]
    /\ selectedResponse' = Shown(requestHistory'[1])

\* the history was cleared, or left alone while the display was cleared or
\* an item of the history was picked for display
OtherStep ==
    \/ requestHistory' = <<>> /\ selectedResponse' = selectedResponse
    \/ requestHistory' = requestHistory /\ selectedResponse' = null
    \/ /\ requestHistory' = requestHistory
       /\ \E i \in 1..Len(requestHistory) : selectedResponse' = Shown(requestHistory[i])

\* C17: requestHistory never holds more than 10 items and is ordered newest
\* first; each completed request, successful or failed, adds exactly one item
\* at the front, dropping the oldest when 10 are held, and the displayed
\* response becomes the one just recorded; clearing empties the history or
\* the display and changes nothing else.
C17_BoundedHistory ==
    /\ [](Len(requestHistory) <= 10 /\ NewestFirst)
    /\ [][RecordedStep \/ OtherStep]_vars

C17_Witness ==
    /\ Len(requestHistory) = 10
    /\ requestHistory[1].timestamp = 11
    /\ requestHistory[10].timestamp = 2
    /\ requestHistory[1].isError
    /\ ~ requestHistory[2].isError
    /\ selectedResponse = Shown(requestHistory[1])

\* ------------------------------------------------- simulator without input
NoProposalsList == Field(req.body, "proposals").t # "array"

ActionAndPayload ==
    /\ Truthy(Field(req.body, "action"))
    /\ Truthy(Field(req.body, "payload"))

\* C18: a POST /api/simulate whose proposals is not a list and which does not
\* carry both an action and a payload is answered 400 with an error message;
\* the response holds no results and no simulation fields, and nothing is
\* sent to the remote API.
C18_NoInput400 ==
    (SimulatePosted /\ NoProposalsList /\ ~ ActionAndPayload) =>
        /\ pc = "done"
        /\ sent = 1
        /\ res.status = 400
        /\ DOMAIN res.body = {"kind", "error"}
        /\ res.body.kind = "error"
        /\ res.body.error = "Falta proposals[] o action+payload"
        /\ remoteLog = <<>>

C18_Witness ==
    /\ SimulatePosted
    /\ Field(req.body, "proposals") = Str("none")
    /\ Field(req.body, "action") = Str("ad_status")
    /\ Field(req.body, "payload") = Str("")
    /\ res.status = 400

\* ------------------------------------------------- one response per request
\* the steps the server takes by itself once a request has arrived; the
\* remote call settles (reply, HTTP error or network error)
Serve ==
    \/ Cors
    \/ Guard
    \/ Health
    \/ Healthz
    \/ InsightsGet
    \/ InsightsPost
    \/ AdsetBudget
    \/ AdStatus
    \/ Simulate
    \/ NotFound
    \/ RemoteReply

FairSpec == Spec /\ WF_vars(Serve)

InFlight == pc \in {"cors", "guard", "route", "remote"}

Answered == pc = "done" /\ sent = 1 /\ res # NoRes

\* C19: a request is never answered twice, nothing is sent before it is
\* answered, and every request that has arrived is answered: whatever the
\* path (preflight, guard rejection, validation failure, missing
\* configuration, remote success or failure, unknown route), it ends with
\* exactly one status and body sent.
C19_ExactlyOneResponse ==
    /\ [](/\ sent <= 1
          /\ InFlight => (sent = 0 /\ res = NoRes /\ req # NoReq)
          /\ pc = "done" => Answered
          /\ pc = "idle" => (sent = 0 /\ req = NoReq))
    /\ (InFlight ~> Answered)

C19_Witness ==
    /\ Answered
    /\ server = "bridge_v2"
    /\ req.method = "GET"
    /\ req.path = "/api/insights"
    /\ ensureEnvFails
    /\ res.status = 500
    /\ remoteLog = <<>>

\* ------------------------------------------------------- the guard's rule
Rejected == pc = "done" /\ res.status = 401

\* the request went past the guard, to the route handlers
PassedGuard ==
    /\ server \in GuardedServers
    /\ \/ pc \in {"route", "remote"}
       \/ pc = "done" /\ res.status \notin {204, 401}

KeyMatches ==
    /\ Truthy(req.key)
    /\ StrictEq(req.key, Str(BRIDGE_API_KEY))

NonHealth == req.path \notin {"/api/health", "/healthz"}

\* C20: with no BRIDGE_API_KEY configured no request is rejected, whatever
\* its X-API-Key header, and the guard sends every request on; an OPTIONS
\* request is never rejected, on any path, even with a key configured; with
\* a key configured, a request that is neither OPTIONS nor for a health path
\* gets past the guard only if its header is non-empty and equal to the key.
C20_GuardRule ==
    /\ [](/\ BRIDGE_API_KEY = Unset => ~ Rejected
          /\ req.method = "OPTIONS" =>
                /\ ~ Rejected
                /\ server = "bridge_v2" => guardPassesV2(req)
          /\ (PassedGuard /\ BRIDGE_API_KEY # Unset /\ req.method # "OPTIONS"
                /\ NonHealth) => KeyMatches)
    /\ [][(pc = "guard" /\ BRIDGE_API_KEY = Unset) => pc' = "route"]_vars

C20_Witness ==
    /\ server = "bridge_v2"
    /\ BRIDGE_API_KEY = Unset
    /\ req.method = "POST"
    /\ req.path = "/api/ad_status"
    /\ req.key = Str("k2")
    /\ pc = "route"
    /\ PassedGuard

\* ------------------------------------------------------ statuses forwarded
AllowedStatuses == {"ACTIVE", "PAUSED", "ARCHIVED"}

StatusAsked == Field(req.body, "status")

StatusForwarded ==
    /\ req.method = "POST"
    /\ req.path = "/api/ad_status"
    /\ Len(remoteLog) >= 1

\* C21: POST /api/ad_status sends to the remote API only a status of
\* {ACTIVE, PAUSED, ARCHIVED}; a request with any other status is answered
\* 400 and no remote call is made.
C21_OnlyAllowedStatuses ==
    /\ StatusForwarded => SetHas(AllowedStatuses, remoteLog[1].call.params.status)
    /\ (StatusPosted /\ ~ SetHas(AllowedStatuses, StatusAsked)) =>
          /\ remoteLog = <<>>
          /\ pc = "done"
          /\ res.status = 400

\* what routes.ts does on the same requests
C21_RoutesTs ==
    server = "routes_ts" => C21_OnlyAllowedStatuses

\* --------------------------------------------- budget checks and their order
ApprovedOK(i) ==
    /\ res.body.results[i].approved
    /\ res.body.results[i].reason = "OK"

\* C22: in a proposals list, a budget_change proposal is checked against the
\* minimum budget only when new_daily_budget_eur is a number and against the
\* delta thresholds only when delta_pct is a number, so with neither a number
\* it is approved with reason "OK"; when the budget is below the minimum and
\* the delta is outside the thresholds, the proposal is rejected with the
\* minimum-budget reason.
C22_NumericChecksInOrder ==
    SimAnswered =>
        \A i \in 1..Len(Proposals) :
            IsType(Proposals[i], "budget_change") =>
                /\ (Proposals[i].new_daily_budget_eur.t # "number"
                      /\ Proposals[i].delta_pct.t # "number") => ApprovedOK(i)
                /\ (Proposals[i].new_daily_budget_eur.t # "number"
                      /\ ~ DeltaOutside(Proposals[i])) => ApprovedOK(i)
                /\ (Proposals[i].delta_pct.t # "number"
                      /\ ~ BelowMinimum(Proposals[i])) => ApprovedOK(i)
                /\ (BelowMinimum(Proposals[i]) /\ DeltaOutside(Proposals[i])) =>
                      /\ ~ res.body.results[i].approved
                      /\ res.body.results[i].reason = "Presupuesto < minimo (1 EUR)"

C22_Witness ==
    /\ SimAnswered
    /\ Len(Proposals) = 2
    /\ IsType(Proposals[1], "budget_change")
    /\ Proposals[1].new_daily_budget_eur = Str("0")
    /\ Proposals[1].delta_pct = Str("40")
    /\ ApprovedOK(1)
    /\ IsType(Proposals[2], "budget_change")
    /\ ~ res.body.results[2].approved

\* ------------------------------------------------- simulator input modes
Action == Field(req.body, "action")
Payload == Field(req.body, "payload")

PayloadStatus ==
    IF Payload.t = "object" THEN Field(Payload.v, "status") ELSE undefined

\* the request with its action and payload taken away
ListOnly == [req.body EXCEPT !.action = undefined, !.payload = undefined]

\* a proposals list is evaluated as if action and payload were not there
ListMode ==
    (SimulatePosted /\ ~ NoProposalsList) =>
        /\ res.status = 200
        /\ Len(res.body.results) = Len(Proposals)
        /\ res = simulateResponse(StaticPolicy, ListOnly)

\* the one decision of the action + payload mode
SingleDecision ==
    /\ res.status = 200
    /\ Len(res.body.results) = 1
    /\ res.body.results[1].approved <=>
          (/\ StrictEq(Action, Str("ad_status"))
           /\ SetHas(AllowedStatuses, PayloadStatus))
    /\ ~ StrictEq(Action, Str("ad_status")) => ~ res.body.results[1].approved

\* C23 as stated: a proposals list is evaluated and action and payload are
\* ignored; otherwise, when action and payload are both present, the results
\* hold exactly one decision, approved if and only if action is "ad_status"
\* and payload.status is one of ACTIVE, PAUSED, ARCHIVED.
C23_Original ==
    /\ ListMode
    /\ (SimulatePosted /\ NoProposalsList
          /\ Action # undefined /\ Payload # undefined) => SingleDecision

\* C23 amended: the same, for an action and a payload that are both truthy;
\* an action or payload that is present but empty counts as missing and the
\* request is answered 400.
C23_ModeSelection ==
    /\ ListMode
    /\ (SimulatePosted /\ NoProposalsList /\ ActionAndPayload) => SingleDecision
    /\ (SimulatePosted /\ NoProposalsList /\ ~ ActionAndPayload) => res.status = 400

C23_Witness ==
    /\ SimulatePosted
    /\ NoProposalsList
    /\ Action = Str("ad_status")
    /\ Payload = Obj([status |-> Str("PAUSED")])
    /\ res.status = 200
    /\ Len(res.body.results) = 1
    /\ res.body.results[1].approved

====
